---- MODULE Spec2Model ----
(***************************************************************************)
(* dockersshell (src/dockersshell.go): one run of main().  The run scans   *)
(* the configured pool of container-engine endpoints; with -clean it reaps *)
(* old containers, otherwise it selects the least loaded endpoint, creates *)
(* and starts a container there, waits for its SSH banner, runs ssh and    *)
(* tears the container down.                                               *)
(*                                                                         *)
(* Go strings are modelled as tuples of one-character strings, so that     *)
(* strings.Split, strconv.ParseInt, strconv.FormatInt and strings.Contains *)
(* are computed as the library computes them.                              *)
(***************************************************************************)
EXTENDS Integers, Sequences, FiniteSets, TLC

VARIABLES
    CleanUp,     \* the -clean flag (line 93)
    config,      \* getconfig(): [Endpoints, MaxAge]
    hosts,       \* per endpoint address: does NewClient accept it, does the engine answer, Url.Host
    engine,      \* per endpoint address: the engine's containers, [ID, Names, running]
    target,      \* how the container's published SSH port behaves
    now,         \* the last value read from the clock (time.Now().Unix())
    stamp,       \* the clock value the name was stamped with (line 90)
    name,        \* the generated container name, user-stamp (line 91)
    pc,          \* position in main()
    idx,         \* position of the range loop over config.Endpoints (line 105)
    Endpoint,    \* the selected endpoint, "" while none (line 85)
    Smallest,    \* line 87
    containers,  \* the listing of the endpoint being reaped (line 111)
    cidx,        \* position of the range loop over containers (line 117)
    container,   \* ID of the container this run created, NoID before
    port,        \* inspect...HostPort (line 186), 0 before
    i,           \* wait's loop counter (line 71)
    buf,         \* wait's 20-byte buffer (line 70)
    exitCode,    \* process exit status, -1 while running
    ops,         \* history: engine mutations and the session, in order
    queried,     \* history: pool positions for which a client was made, in order
    seen,        \* history: the reaper's decision for every container it looked at
    dials,       \* history: number of net.Dial calls made by wait
    sleeps,      \* history: number of time.Sleep calls made by wait
    lastDial,    \* history: what the last attempt of wait got
    accepted,    \* history: has any net.Dial of wait succeeded
    inspected    \* history: what InspectContainer returned, "none" before

vars == <<CleanUp, config, hosts, engine, target, now, stamp, name, pc, idx,
          Endpoint, Smallest, containers, cidx, container, port, i, buf,
          exitCode, ops, queried, seen, dials, sleeps, lastDial, accepted, inspected>>

---------------------------------------------------------------------------
(* Program constants *)

SmallestInit == 1024
WaitAttempts == 60
BufLen == 20
DefaultMaxAge == 86400

(* Bounds of the model *)

MaxPool == 2
MaxPoolSelect == 3
MaxContainers == 2
MaxNameLen == 3
MaxResp == 3
MaxTicks == 1
MaxUserLen == 2
Now0 == 1700086400

NoID == 0
NewID == 1000000
OtherID == 2000000

---------------------------------------------------------------------------
(* Strings *)

Digits == {"0", "1", "2", "3", "4", "5", "6", "7", "8", "9"}

DigitVal(c) ==
    CASE c = "0" -> 0 [] c = "1" -> 1 [] c = "2" -> 2 [] c = "3" -> 3
      [] c = "4" -> 4 [] c = "5" -> 5 [] c = "6" -> 6 [] c = "7" -> 7
      [] c = "8" -> 8 [] c = "9" -> 9

DigitChar(d) ==
    CASE d = 0 -> "0" [] d = 1 -> "1" [] d = 2 -> "2" [] d = 3 -> "3"
      [] d = 4 -> "4" [] d = 5 -> "5" [] d = 6 -> "6" [] d = 7 -> "7"
      [] d = 8 -> "8" [] d = 9 -> "9"

RECURSIVE FormatNat(_)
FormatNat(n) ==
    IF n < 10 THEN <<DigitChar(n)>>
    ELSE Append(FormatNat(n \div 10), DigitChar(n % 10))

\* strconv.FormatInt(n, 10)
FormatInt(n) == IF n < 0 THEN <<"-">> \o FormatNat(-n) ELSE FormatNat(n)

RECURSIVE DecValue(_)
DecValue(s) ==
    IF Len(s) = 0 THEN 0
    ELSE 10 * DecValue(SubSeq(s, 1, Len(s) - 1)) + DigitVal(s[Len(s)])

\* strconv.ParseInt(s, 10, 64): an optional sign, then one or more decimal
\* digits.  The names of the model hold at most ten digits, below 2^31, so
\* the 64-bit range error cannot arise on them.
ParseInt(s) ==
    LET signed == Len(s) > 0 /\ s[1] \in {"+", "-"}
        body == IF signed THEN Tail(s) ELSE s
        ok == Len(body) > 0 /\ \A k \in 1..Len(body) : body[k] \in Digits
    IN  [ok |-> ok,
         val |-> IF ~ok THEN 0
                 ELSE IF signed /\ s[1] = "-" THEN 0 - DecValue(body)
                 ELSE DecValue(body)]

RECURSIVE SplitFrom(_, _, _, _)
SplitFrom(s, k, cur, acc) ==
    IF k > Len(s) THEN Append(acc, cur)
    ELSE IF s[k] = "-" THEN SplitFrom(s, k + 1, <<>>, Append(acc, cur))
    ELSE SplitFrom(s, k + 1, Append(cur, s[k]), acc)

\* strings.Split(s, "-")
Split(s) == SplitFrom(s, 1, <<>>, <<>>)

\* strings.Contains(s, "SSH")
ContainsSSH(s) ==
    \E k \in 1..(Len(s) - 2) : s[k] = "S" /\ s[k + 1] = "S" /\ s[k + 2] = "H"

\* fmt.Sprintf("%s-%s", user, stamp)
NameOf(user, st) == user \o <<"-">> \o st

---------------------------------------------------------------------------
(* The environment of a run *)

AddrSeq == <<"e1", "e2", "e3", "e4">>

Addrs == {AddrSeq[k] : k \in 1..Len(AddrSeq)}

\* What an endpoint address is to docker.NewClient, to the engine behind it
\* and to url.Parse: "invalid" addresses are refused by NewClient, "down"
\* engines fail every call, and host is Url.Host ("" for an address such as
\* a unix socket, which has none).
HostKinds ==
    { [status |-> "invalid", host |-> ""],
      [status |-> "down", host |-> "h1"],
      [status |-> "up", host |-> "h1"],
      [status |-> "up", host |-> ""] }

RECURSIVE SeqsUpTo(_, _)
SeqsUpTo(S, n) ==
    IF n = 0 THEN {<<>>}
    ELSE LET shorter == SeqsUpTo(S, n - 1)
         IN  shorter \cup {Append(q, x) : q \in {r \in shorter : Len(r) = n - 1}, x \in S}

\* The engine's containers from the list of their Names, all running.
Populate(namesList) ==
    [k \in 1..Len(namesList) |-> [ID |-> k, Names |-> namesList[k], running |-> TRUE]]

\* n running containers that carry one name each, none of the reaper's shape.
Filler(n) == [k \in 1..n |-> [ID |-> k, Names |-> << <<"x">> >>, running |-> TRUE]]

StampedName(user, t) == NameOf(user, FormatInt(t))

\* Names of containers: the names this tool gives (older than, and exactly as
\* old as, the default max age at time Now0) and names of other shapes.
OldName == StampedName(<<"b">>, Now0 - DefaultMaxAge - 1)
EdgeName == StampedName(<<"b">>, Now0 - DefaultMaxAge)
PlainName == <<"a">>

\* The engines of the whole program hold one of these.
BaseListings ==
    { <<>>,
      Populate(<< <<OldName>> >>),
      Populate(<< <<EdgeName>>, <<PlainName>> >>),
      Populate(<< <<OldName, PlainName>>, <<>>, <<OldName>> >>) }

Running(a) == SelectSeq(engine[a], LAMBDA c : c.running)

\* time.Now().Unix(): the clock never runs backwards.
Clock == {t \in now..(now + 1) : t <= Now0 + MaxTicks}

---------------------------------------------------------------------------
(* State at the head of the endpoint loop (lines 85-104 done) *)

InitRun ==
    /\ now = Now0
    /\ stamp = Now0
    /\ pc = "scan"
    /\ idx = 1
    /\ Endpoint = ""
    /\ Smallest = SmallestInit
    /\ containers = <<>>
    /\ cidx = 0
    /\ container = NoID
    /\ port = 0
    /\ i = 0
    /\ buf = [k \in 1..BufLen |-> "0"]
    /\ exitCode = -1
    /\ ops = <<>>
    /\ queried = <<>>
    /\ seen = <<>>
    /\ dials = 0
    /\ sleeps = 0
    /\ lastDial = "none"
    /\ accepted = FALSE
    /\ inspected = "none"

Init ==
    /\ CleanUp \in BOOLEAN
    /\ config \in [Endpoints : SeqsUpTo({"e1", "e2"}, MaxPool), MaxAge : {0, DefaultMaxAge}]
    /\ hosts \in [Addrs -> HostKinds]
    /\ \A a \in Addrs : a \notin {"e1", "e2"} => hosts[a] = [status |-> "up", host |-> "h1"]
    /\ engine \in [Addrs -> BaseListings]
    /\ \A a \in Addrs : a \notin {"e1", "e2"} => engine[a] = <<>>
    /\ target \in {"down", "prompt"}
    /\ name = StampedName(<<"u">>, Now0)
    /\ InitRun

---------------------------------------------------------------------------
(* Helpers of the actions *)

\* log.Fatal: os.Exit(1).  A runtime panic ends the process with status 2.
FatalExit == 1
PanicExit == 2

Op(kind, ep, id, ok) == [op |-> kind, ep |-> ep, id |-> id, ok |-> ok]

\* The engine's effect of a successful StopContainer / RemoveContainer / ...
Stopped(a, id) ==
    [engine EXCEPT ![a] = [k \in 1..Len(@) |->
        IF @[k].ID = id THEN [@[k] EXCEPT !.running = FALSE] ELSE @[k]]]

Started(a, id) ==
    [engine EXCEPT ![a] = [k \in 1..Len(@) |->
        IF @[k].ID = id THEN [@[k] EXCEPT !.running = TRUE] ELSE @[k]]]

Removed(eng, a, id) ==
    [eng EXCEPT ![a] = SelectSeq(@, LAMBDA c : c.ID # id)]

Created(a, id, nm) ==
    [engine EXCEPT ![a] = Append(@, [ID |-> id, Names |-> <<nm>>, running |-> FALSE])]

\* The engine refuses a second container of a name it already holds.
NameTaken(a, nm) ==
    \E k \in 1..Len(engine[a]) : \E j \in 1..Len(engine[a][k].Names) :
        engine[a][k].Names[j] = nm

ParsedNameSecondField(c) ==
    IF Len(c.Names) # 1 THEN [ok |-> FALSE, val |-> 0]
    ELSE LET parts == Split(c.Names[1])
         IN  IF Len(parts) < 2 THEN [ok |-> FALSE, val |-> 0]
             ELSE ParseInt(parts[2])

\* Lines 118-125: the creation time the reaper reads from the container's name.
ParsedName(c) ==
    IF Len(c.Names) # 1 THEN [ok |-> FALSE, val |-> 0]
    ELSE LET parts == Split(c.Names[1])
         IN  IF Len(parts) # 2 THEN [ok |-> FALSE, val |-> 0]
             ELSE ParseInt(parts[2])

TooOldInclusive(created, t) == config.MaxAge # 0 /\ t - created >= config.MaxAge

\* Line 126: is the container older than max_age at clock reading t.
TooOld(created, t) == config.MaxAge # 0 /\ t - created > config.MaxAge

AfterEmptyContinue == [pc |-> "scan", idx |-> idx + 1]

\* Line 140: the break after an endpoint without containers was selected.
AfterEmpty == [pc |-> "break", idx |-> idx]

LeavesNever == FALSE

\* Line 148: the reaper leaves after the loop.
LeavesAfterLoop == CleanUp

BetterThanSentinel(n) == n < SmallestInit

BetterOrEqual(n) == n <= Smallest

\* Line 141: does a listing of n containers replace the best so far.
Better(n) == n < Smallest

---------------------------------------------------------------------------
(* main, lines 105-146: one iteration of the loop over config.Endpoints *)

ScanEndpoint ==
    /\ pc = "scan"
    /\ idx <= Len(config.Endpoints)
    /\ LET endpoint == config.Endpoints[idx]
           listed == Running(endpoint)
           continue == /\ idx' = idx + 1
                       /\ pc' = "scan"
       IN  /\ queried' = Append(queried, idx)
           /\ IF hosts[endpoint].status # "up"
              THEN continue /\ UNCHANGED <<Endpoint, Smallest, containers, cidx>>
              ELSE IF CleanUp
              THEN IF Len(listed) = 0
                   THEN continue /\ UNCHANGED <<Endpoint, Smallest, containers, cidx>>
                   ELSE /\ pc' = "reap"
                        /\ containers' = listed
                        /\ cidx' = 1
                        /\ UNCHANGED <<idx, Endpoint, Smallest>>
              ELSE IF Len(listed) = 0
              THEN /\ Endpoint' = endpoint
                   /\ pc' = AfterEmpty.pc
                   /\ idx' = AfterEmpty.idx
                   /\ UNCHANGED <<Smallest, containers, cidx>>
              ELSE IF Better(Len(listed))
              THEN /\ Endpoint' = endpoint
                   /\ Smallest' = Len(listed)
                   /\ continue
                   /\ UNCHANGED <<containers, cidx>>
              ELSE continue /\ UNCHANGED <<Endpoint, Smallest, containers, cidx>>
    /\ UNCHANGED <<CleanUp, config, hosts, engine, target, now, stamp, name,
                   container, port, i, buf, exitCode, ops, seen, dials, sleeps, lastDial, accepted, inspected>>

(* main, lines 117-136: one iteration of the loop over containers *)

NextContainerLeavesLoop ==
    IF cidx = Len(containers)
    THEN pc' = "break" /\ idx' = idx /\ cidx' = cidx
    ELSE pc' = "reap" /\ idx' = idx /\ cidx' = cidx + 1

\* Lines 117 and 105: the next container of this listing, or after the last
\* one the next endpoint.
NextContainer ==
    IF cidx = Len(containers)
    THEN pc' = "scan" /\ idx' = idx + 1 /\ cidx' = cidx
    ELSE pc' = "reap" /\ idx' = idx /\ cidx' = cidx + 1

Decision(c, t, reaped) ==
    [ep |-> config.Endpoints[idx], id |-> c.ID, names |-> c.Names, at |-> t, reaped |-> reaped]

ReapContainer ==
    /\ pc = "reap"
    /\ LET c == containers[cidx]
           ep == config.Endpoints[idx]
           parsed == ParsedName(c)
           reads == parsed.ok /\ config.MaxAge # 0
       IN  \E t \in (IF reads THEN Clock ELSE {now}) :
           /\ now' = t
           /\ \/ /\ ~(parsed.ok /\ TooOld(parsed.val, t))
                 /\ seen' = Append(seen, Decision(c, t, FALSE))
                 /\ NextContainer
                 /\ UNCHANGED <<engine, ops, exitCode>>
              \/ /\ parsed.ok /\ TooOld(parsed.val, t)
                 /\ seen' = Append(seen, Decision(c, t, TRUE))
                 /\ \E result \in {"stopfails", "removefails", "done"} :
                    CASE result = "stopfails" ->
                         /\ ops' = Append(ops, Op("stop", ep, c.ID, FALSE))
                         /\ pc' = "exit" /\ exitCode' = FatalExit
                         /\ UNCHANGED <<engine, idx, cidx>>
                      [] result = "removefails" ->
                         /\ ops' = ops \o <<Op("stop", ep, c.ID, TRUE), Op("remove", ep, c.ID, FALSE)>>
                         /\ engine' = Stopped(ep, c.ID)
                         /\ pc' = "exit" /\ exitCode' = FatalExit
                         /\ UNCHANGED <<idx, cidx>>
                      [] result = "done" ->
                         /\ ops' = ops \o <<Op("stop", ep, c.ID, TRUE), Op("remove", ep, c.ID, TRUE)>>
                         /\ engine' = Removed(Stopped(ep, c.ID), ep, c.ID)
                         /\ NextContainer
                         /\ UNCHANGED exitCode
    /\ UNCHANGED <<CleanUp, config, hosts, target, stamp, name, Endpoint, Smallest,
                   containers, container, port, i, buf, queried, dials, sleeps, lastDial, accepted, inspected>>

(* main, lines 148-168: after the loop *)

LoopEnded == pc = "break" \/ (pc = "scan" /\ idx > Len(config.Endpoints))

AfterLoop ==
    /\ LoopEnded
    /\ IF LeavesAfterLoop
       THEN pc' = "exit" /\ exitCode' = 0
       ELSE IF Endpoint = ""
       THEN pc' = "exit" /\ exitCode' = FatalExit
       ELSE IF hosts[Endpoint].status = "invalid" \/ hosts[Endpoint].host = ""
       THEN pc' = "exit" /\ exitCode' = FatalExit
       ELSE pc' = "create" /\ exitCode' = exitCode
    /\ UNCHANGED <<CleanUp, config, hosts, engine, target, now, stamp, name, idx, Endpoint,
                   Smallest, containers, cidx, container, port, i, buf, ops, queried,
                   seen, dials, sleeps, lastDial, accepted, inspected>>

(* main, lines 170-175 *)

AfterCreateIgnoringError(ok) == "start"

\* Lines 173-175: log.Fatal when CreateContainer returned an error.
AfterCreate(ok) == IF ok THEN "start" ELSE "exit"

CreateContainer ==
    /\ pc = "create"
    /\ \E ok \in (IF NameTaken(Endpoint, name) THEN {FALSE} ELSE BOOLEAN) :
       /\ ops' = Append(ops, Op("create", Endpoint, NewID, ok))
       /\ engine' = IF ok THEN Created(Endpoint, NewID, name) ELSE engine
       /\ container' = IF ok THEN NewID ELSE container
       /\ pc' = AfterCreate(ok)
       /\ exitCode' = IF AfterCreate(ok) = "exit" THEN FatalExit ELSE exitCode
    /\ UNCHANGED <<CleanUp, config, hosts, target, now, stamp, name, idx, Endpoint,
                   Smallest, containers, cidx, port, i, buf, queried, seen, dials,
                   sleeps, lastDial, accepted, inspected>>

(* main, lines 177-180 *)

AfterStartIgnoringError(ok) == "inspect"

\* Lines 178-180: log.Fatal when StartContainer returned an error.
AfterStart(ok) == IF ok THEN "inspect" ELSE "exit"

StartContainer ==
    /\ pc = "start"
    /\ \E ok \in BOOLEAN :
       /\ ops' = Append(ops, Op("start", Endpoint, container, ok))
       /\ engine' = IF ok THEN Started(Endpoint, container) ELSE engine
       /\ pc' = AfterStart(ok)
       /\ exitCode' = IF AfterStart(ok) = "exit" THEN FatalExit ELSE exitCode
    /\ UNCHANGED <<CleanUp, config, hosts, target, now, stamp, name, idx, Endpoint,
                   Smallest, containers, cidx, container, port, i, buf, queried, seen,
                   dials, sleeps, lastDial, accepted, inspected>>

(* main, lines 182-186.  On an error InspectContainer returns a nil container:
   the message is printed and line 186 dereferences nil; a container without
   a binding for 22/tcp makes the [0] of line 186 index an empty slice.  Both
   are runtime panics, which end the process with status 2. *)

HostPort == 32768

InspectOutcomeReportOnly(result) ==
    IF result = "unbound" THEN "panic" ELSE "wait"

InspectOutcome(result) ==
    IF result = "bound" THEN "wait" ELSE "panic"

InspectContainer ==
    /\ pc = "inspect"
    /\ \E result \in {"error", "unbound", "bound"} :
       /\ inspected' = result
       /\ IF InspectOutcome(result) = "wait"
          THEN /\ port' = HostPort
               /\ pc' = "wait"
               /\ UNCHANGED exitCode
          ELSE /\ pc' = "exit" /\ exitCode' = PanicExit
               /\ UNCHANGED port
    /\ UNCHANGED <<CleanUp, config, hosts, engine, target, now, stamp, name, idx, Endpoint,
                   Smallest, containers, cidx, container, i, buf, ops, queried, seen,
                   dials, sleeps, lastDial, accepted>>

---------------------------------------------------------------------------
(* wait, lines 69-82 *)

RespChars == {"S", "H", "x"}

Responses == SeqsUpTo(RespChars, MaxResp) \ {<<>>}

Banner == <<"S", "S", "H", "-", "2", ".", "0">>

\* What one attempt can meet: the dial refused; the connection made and the
\* read failing with no byte (closed); the read never returning; the read
\* delivering data.
Outcomes(tg) ==
    CASE tg = "down" -> {[kind |-> "refused", data |-> <<>>]}
      [] tg = "prompt" -> {[kind |-> "data", data |-> Banner]}
      [] tg = "any" ->
            {[kind |-> "refused", data |-> <<>>], [kind |-> "closed", data |-> <<>>],
             [kind |-> "silent", data |-> <<>>]}
            \cup {[kind |-> "data", data |-> d] : d \in Responses}

\* Reader.Read(buf): the bytes read replace the head of buf, the rest stays.
ReadInto(b, data) ==
    [k \in 1..BufLen |-> IF k <= Len(data) THEN data[k] ELSE b[k]]

LoopRunsOnceMore(k) == k <= WaitAttempts

\* Line 71: the loop condition.
LoopRuns(k) == k < WaitAttempts

ReadyAtSecondByte(b) == ContainsSSH(Tail(b))

\* Line 75, for a read that returned no error into buffer b.
Ready(b) == ContainsSSH(b)

WaitAttempt ==
    /\ pc = "wait"
    /\ LoopRuns(i)
    /\ \E o \in Outcomes(target) :
       LET b == IF o.kind = "data" THEN ReadInto(buf, o.data) ELSE buf
       IN  /\ dials' = dials + 1
           /\ buf' = b
           /\ lastDial' = IF o.kind = "data"
                          THEN (IF ContainsSSH(o.data) THEN "banner" ELSE "other")
                          ELSE o.kind
           /\ accepted' = (accepted \/ o.kind # "refused")
           /\ IF o.kind = "silent"
              THEN pc' = "reading" /\ UNCHANGED <<i, sleeps>>
              ELSE IF o.kind = "data" /\ Ready(b)
              THEN pc' = "connect" /\ UNCHANGED <<i, sleeps>>
              ELSE pc' = "wait" /\ i' = i + 1 /\ sleeps' = sleeps + 1
    /\ UNCHANGED <<CleanUp, config, hosts, engine, target, now, stamp, name, idx, Endpoint,
                   Smallest, containers, cidx, container, port, exitCode, ops, queried,
                   seen, inspected>>

WaitGiveUp ==
    /\ pc = "wait"
    /\ ~LoopRuns(i)
    /\ pc' = "exit"
    /\ exitCode' = FatalExit
    /\ UNCHANGED <<CleanUp, config, hosts, engine, target, now, stamp, name, idx, Endpoint,
                   Smallest, containers, cidx, container, port, i, buf, ops, queried,
                   seen, dials, sleeps, lastDial, accepted, inspected>>

(* connect, lines 58-67, called at line 190 *)

AfterSessionWithTeardown(ok) == "stop"

\* Lines 63-66: log.Fatal when cmd.Run returned an error.
AfterSession(ok) == IF ok THEN "stop" ELSE "exit"

Connect ==
    /\ pc = "connect"
    /\ \E ok \in BOOLEAN :
       /\ ops' = Append(ops, Op("ssh", Endpoint, container, ok))
       /\ pc' = AfterSession(ok)
       /\ exitCode' = IF AfterSession(ok) = "exit" THEN FatalExit ELSE exitCode
    /\ UNCHANGED <<CleanUp, config, hosts, engine, target, now, stamp, name, idx, Endpoint,
                   Smallest, containers, cidx, container, port, i, buf, queried, seen,
                   dials, sleeps, lastDial, accepted, inspected>>

(* main, lines 192-194 *)

StopContainer ==
    /\ pc = "stop"
    /\ \E ok \in BOOLEAN :
       /\ ops' = Append(ops, Op("stop", Endpoint, container, ok))
       /\ IF ok
          THEN /\ engine' = Stopped(Endpoint, container)
               /\ pc' = "remove"
               /\ UNCHANGED exitCode
          ELSE /\ pc' = "exit" /\ exitCode' = FatalExit
               /\ UNCHANGED engine
    /\ UNCHANGED <<CleanUp, config, hosts, target, now, stamp, name, idx, Endpoint,
                   Smallest, containers, cidx, container, port, i, buf, queried, seen,
                   dials, sleeps, lastDial, accepted, inspected>>

(* main, lines 196-201 *)

RemoveContainer ==
    /\ pc = "remove"
    /\ \E ok \in BOOLEAN :
       /\ ops' = Append(ops, Op("remove", Endpoint, container, ok))
       /\ pc' = "exit"
       /\ IF ok
          THEN /\ engine' = Removed(engine, Endpoint, container)
               /\ exitCode' = 0
          ELSE /\ exitCode' = FatalExit
               /\ UNCHANGED engine
    /\ UNCHANGED <<CleanUp, config, hosts, target, now, stamp, name, idx, Endpoint,
                   Smallest, containers, cidx, container, port, i, buf, queried, seen,
                   dials, sleeps, lastDial, accepted, inspected>>

---------------------------------------------------------------------------
(* The whole program *)

Next ==
    \/ ScanEndpoint
    \/ ReapContainer
    \/ AfterLoop
    \/ CreateContainer
    \/ StartContainer
    \/ InspectContainer
    \/ WaitAttempt
    \/ WaitGiveUp
    \/ Connect
    \/ StopContainer
    \/ RemoveContainer

Spec == Init /\ [][Next]_vars

---------------------------------------------------------------------------
(* The endpoint selection alone (lines 105-154, interactive mode), over
   pools of up to MaxPoolSelect endpoints that are refused by NewClient, fail
   to list, or list 0, 1, 2, SmallestInit - 1 or SmallestInit containers. *)

SelectCounts == {0, 1, 2, SmallestInit - 1, SmallestInit}

SelectKinds ==
    {[status |-> "invalid", n |-> 0], [status |-> "down", n |-> 0]}
    \cup {[status |-> "up", n |-> n] : n \in SelectCounts}

InitSelect ==
    /\ CleanUp = FALSE
    /\ \E n \in 0..MaxPoolSelect : \E kinds \in [1..n -> SelectKinds] :
       /\ config = [Endpoints |-> SubSeq(AddrSeq, 1, n), MaxAge |-> DefaultMaxAge]
       /\ hosts = [a \in Addrs |->
             IF \E k \in 1..n : AddrSeq[k] = a
             THEN LET k == CHOOSE k \in 1..n : AddrSeq[k] = a
                  IN  [status |-> kinds[k].status,
                       host |-> IF kinds[k].status = "invalid" THEN "" ELSE "h1"]
             ELSE [status |-> "up", host |-> "h1"]]
       /\ engine = [a \in Addrs |->
             IF \E k \in 1..n : AddrSeq[k] = a
             THEN Filler(kinds[CHOOSE k \in 1..n : AddrSeq[k] = a].n)
             ELSE <<>>]
    /\ target = "prompt"
    /\ name = StampedName(<<"u">>, Now0)
    /\ InitRun

NextSelect == ScanEndpoint \/ AfterLoop

SpecSelect == InitSelect /\ [][NextSelect]_vars

---------------------------------------------------------------------------
(* Properties of the endpoint selection *)

pool == config.Endpoints

Listable(k) == hosts[pool[k]].status = "up"

Count(a) == Len(Running(a))

\* The loop over the endpoints has ended in interactive mode.
Selected == ~CleanUp /\ LoopEnded

\* C1: in interactive mode, the endpoint the scan has chosen was connected to
\* and listed, and its number of running containers is not greater than that
\* of any endpoint of the pool that can be connected to and listed.
C1_ChosenIsLeastLoaded ==
    (Selected /\ Endpoint # "") =>
        /\ \E k \in 1..Len(pool) : pool[k] = Endpoint /\ Listable(k)
        /\ \A k \in 1..Len(pool) : Listable(k) => Count(Endpoint) <= Count(pool[k])

\* A later, less loaded endpoint replaced an earlier one.
C1_Witness ==
    /\ Selected
    /\ Len(pool) >= 2
    /\ Endpoint = pool[2]
    /\ Listable(1) /\ Count(pool[1]) > Count(Endpoint)
    /\ Count(Endpoint) > 0

\* C2: the scan ends without a selected endpoint (the fatal "No acceptable
\* endpoints found" of line 153) if and only if every endpoint of the pool
\* failed to connect or failed to list.
C2_NoneFoundIffNoneListable ==
    Selected => (Endpoint = "" <=> \A k \in 1..Len(pool) : ~Listable(k))

\* C3: once the scan has reached a listable endpoint without running
\* containers, that endpoint is the selected one, and it is the last one a
\* client was made for: the scan queried the pool in order up to it and no
\* endpoint after it.
C3_StopsAtEmptyEndpoint ==
    ~CleanUp =>
        /\ \A j \in 1..Len(queried) : queried[j] = j
        /\ \A j \in 1..Len(queried) :
              (Listable(j) /\ Count(pool[j]) = 0) =>
                  /\ j = Len(queried)
                  /\ Endpoint = pool[j]
                  /\ pc # "scan"

\* Counts 1023, 0, 2: the second endpoint is selected, the third never queried.
C3_Witness ==
    /\ Selected
    /\ Len(pool) = 3
    /\ Count(pool[1]) > 0 /\ Count(pool[2]) = 0 /\ Count(pool[3]) > 0
    /\ Listable(1) /\ Listable(2) /\ Listable(3)
    /\ queried = <<1, 2>>
    /\ Endpoint = pool[2]

---------------------------------------------------------------------------
(* The readiness wait and what follows it (lines 188-201), entered after the
   endpoint e1 was selected and the container created, started and inspected
   there, against a port that may behave in any way at every attempt. *)

InitWait ==
    /\ CleanUp = FALSE
    /\ config = [Endpoints |-> <<"e1">>, MaxAge |-> DefaultMaxAge]
    /\ hosts = [a \in Addrs |-> [status |-> "up", host |-> "h1"]]
    /\ name = StampedName(<<"u">>, Now0)
    /\ engine = [a \in Addrs |->
          IF a = "e1" THEN <<[ID |-> NewID, Names |-> <<name>>, running |-> TRUE]>> ELSE <<>>]
    /\ target \in {"any", "down"}
    /\ now = Now0
    /\ stamp = Now0
    /\ pc = "wait"
    /\ idx = 1
    /\ Endpoint = "e1"
    /\ Smallest = SmallestInit
    /\ containers = <<>>
    /\ cidx = 0
    /\ container = NewID
    /\ port = HostPort
    /\ i = 0
    /\ buf = [k \in 1..BufLen |-> "0"]
    /\ exitCode = -1
    /\ ops = <<Op("create", "e1", NewID, TRUE), Op("start", "e1", NewID, TRUE)>>
    /\ queried = <<1>>
    /\ seen = <<>>
    /\ dials = 0
    /\ sleeps = 0
    /\ lastDial = "none"
    /\ accepted = FALSE
    /\ inspected = "bound"

NextWait ==
    \/ WaitAttempt
    \/ WaitGiveUp
    \/ Connect
    \/ StopContainer
    \/ RemoveContainer

SpecWait == InitWait /\ [][NextWait]_vars

---------------------------------------------------------------------------
(* Properties of the readiness wait *)

Issued(kind) == \E k \in 1..Len(ops) : ops[k].op = kind

\* C4: as long as no connection attempt of wait has been accepted, wait has
\* made at most 60 attempts, has not returned (the session is not started),
\* and the process has ended only after exactly 60 attempts, by log.Fatal.
C4_TimeoutAfterSixtyRefusals ==
    ~accepted =>
        /\ dials <= WaitAttempts
        /\ pc \notin {"connect", "stop", "remove"}
        /\ ~Issued("ssh")
        /\ pc = "exit" => (dials = WaitAttempts /\ exitCode = FatalExit)

C4_Witness ==
    /\ pc = "exit"
    /\ ~accepted
    /\ dials = WaitAttempts
    /\ sleeps = WaitAttempts
    /\ exitCode = FatalExit
    /\ ~Issued("ssh")

\* C5: an attempt of wait whose connection is made and whose read delivers
\* bytes containing "SSH" is one of at most 60, and wait returns at it:
\* control passes to connect without a sleep; once wait has returned there
\* is no further attempt and no further sleep.
C5_ReturnsAtFirstBanner ==
    [][ /\ (dials' = dials + 1 /\ lastDial' = "banner") =>
            (pc' = "connect" /\ sleeps' = sleeps /\ dials' <= WaitAttempts)
        /\ pc # "wait" => (dials' = dials /\ sleeps' = sleeps) ]_vars

\* wait returned at its third attempt, the first to deliver a banner.
C5_Witness ==
    /\ pc = "connect"
    /\ lastDial = "banner"
    /\ dials = 3
    /\ sleeps = 2

---------------------------------------------------------------------------
(* Properties of the session and of the port resolution, whole program *)

\* C6: when the run has ended and its ssh client had failed, a stop and then
\* a remove of the run's container were issued after the session.
C6_TeardownAfterFailedSession ==
    \A k \in 1..Len(ops) :
        (pc = "exit" /\ ops[k].op = "ssh" /\ ~ops[k].ok) =>
            \E st \in (k + 1)..Len(ops) : \E rm \in (st + 1)..Len(ops) :
                /\ ops[st].op = "stop" /\ ops[st].id = container
                /\ ops[rm].op = "remove" /\ ops[rm].id = container

\* C7: when InspectContainer failed, or returned a container without a host
\* port for 22/tcp, the process has ended with a non-zero status, no
\* connection attempt of wait was made and no session was started.
C7_InspectFailureIsFatal ==
    inspected \in {"error", "unbound"} =>
        /\ pc = "exit"
        /\ exitCode > 0
        /\ port = 0
        /\ dials = 0
        /\ ~Issued("ssh")

C7_Witness ==
    /\ inspected = "error"
    /\ Issued("start")
    /\ pc = "exit"
    /\ exitCode = PanicExit

---------------------------------------------------------------------------
(* The reaper alone (lines 105-150 with -clean).  The engine e1 lists up to
   MaxContainers containers, one of them with any Names, the others padding;
   e2, when in the pool, comes first and is down or holds one old container.
   The engine admits only [a-zA-Z0-9_.-] in a name, so names are drawn over
   a letter, a digit, '_' and '-'. *)

NameChars == {"a", "5", "_", "-"}

StampShapes ==
    { StampedName(<<"b">>, Now0 - DefaultMaxAge + 1),
      StampedName(<<"b">>, Now0 - DefaultMaxAge),
      StampedName(<<"b">>, Now0 - DefaultMaxAge - 1),
      StampedName(<<"b">>, Now0 + DefaultMaxAge),
      StampedName(<<"b">>, Now0 - DefaultMaxAge - 1) \o <<"-", "a">>,
      <<"b", "-", "a", "b", "c">> }

AnyNames ==
    {<<>>}
    \cup {<<n>> : n \in SeqsUpTo(NameChars, MaxNameLen) \cup StampShapes}
    \cup {<<OldName, PlainName>>, <<OldName, EdgeName>>}

PadNames == {<<>>, <<OldName>>, <<EdgeName>>}

ReapListings ==
    {<<>>} \cup
    UNION { { [k \in 1..n |-> IF k = at THEN subject ELSE pad[k]] :
                subject \in AnyNames, pad \in [1..n -> PadNames] } :
            n \in 1..MaxContainers, at \in 1..MaxContainers }

InitReap ==
    /\ CleanUp = TRUE
    /\ \E l \in {q \in ReapListings : Len(q) <= MaxContainers} :
       \E first \in {"none", "down", "up"} :
       /\ config \in [Endpoints : {IF first = "none" THEN <<"e1">> ELSE <<"e2", "e1">>},
                      MaxAge : {0, DefaultMaxAge}]
       /\ hosts = [a \in Addrs |->
             [status |-> IF a = "e2" /\ first = "down" THEN "down" ELSE "up", host |-> "h1"]]
       /\ engine = [a \in Addrs |->
             IF a = "e1" THEN Populate(l)
             ELSE IF a = "e2" /\ first = "up" THEN Populate(<< <<OldName>> >>)
             ELSE <<>>]
    /\ target = "down"
    /\ name = StampedName(<<"u">>, Now0)
    /\ InitRun

NextReap == ScanEndpoint \/ ReapContainer \/ AfterLoop

SpecReap == InitReap /\ [][NextReap]_vars

---------------------------------------------------------------------------
(* Properties of the reaper *)

\* nm is <token>-<digits>: one '-', and after it one or more decimal digits.
TokenDashDigits(nm) ==
    \E d \in 1..Len(nm) :
        /\ nm[d] = "-"
        /\ \A k \in 1..Len(nm) : k # d => nm[k] # "-"
        /\ d < Len(nm)
        /\ \A k \in (d + 1)..Len(nm) : nm[k] \in Digits

\* The timestamp such a name carries.
StampOf(nm) ==
    LET d == CHOOSE d \in 1..Len(nm) : nm[d] = "-"
    IN  DecValue(SubSeq(nm, d + 1, Len(nm)))

Reapable(names) == Len(names) = 1 /\ TokenDashDigits(names[1])

InEngine(ep, id) == \E k \in 1..Len(engine[ep]) : engine[ep][k].ID = id

RunningIn(ep, id) ==
    \E k \in 1..Len(engine[ep]) : engine[ep][k].ID = id /\ engine[ep][k].running

\* C8: in reaper mode every stop and every remove is issued for a container
\* the reaper decided to take, and it takes only containers with exactly one
\* name of the shape <token>-<digits>; a container it passes over stays in
\* the engine, running, and the run ends with a failure only after a stop or
\* remove of a taken container.
C8_ReapsOnlyStampedNames ==
    CleanUp =>
        /\ \A j \in 1..Len(seen) : seen[j].reaped => Reapable(seen[j].names)
        /\ \A j \in 1..Len(seen) : ~seen[j].reaped => RunningIn(seen[j].ep, seen[j].id)
        /\ \A k \in 1..Len(ops) :
              /\ ops[k].op \in {"stop", "remove"}
              /\ \E j \in 1..Len(seen) :
                    seen[j].reaped /\ seen[j].ep = ops[k].ep /\ seen[j].id = ops[k].id
        /\ (pc = "exit" /\ exitCode # 0) =>
              (Len(ops) > 0 /\ ~ops[Len(ops)].ok /\ seen[Len(seen)].reaped)

\* The run ended well, having passed over b-<stamp>-a and taken an old container.
C8_Witness ==
    /\ CleanUp
    /\ pc = "exit"
    /\ exitCode = 0
    /\ \E j \in 1..Len(seen) :
          /\ ~seen[j].reaped
          /\ seen[j].names = << StampedName(<<"b">>, Now0 - DefaultMaxAge - 1) \o <<"-", "a">> >>
    /\ \E j \in 1..Len(seen) : seen[j].reaped /\ ~InEngine(seen[j].ep, seen[j].id)

\* C9: a container with one name <token>-<ts> is taken by the reaper exactly
\* when max_age is not zero and the clock reading minus ts is greater than
\* max_age; a taken container has its stop issued and is gone from the
\* engine once its remove succeeded; with max_age zero nothing is issued.
C9_ReapsStrictlyOlder ==
    CleanUp =>
        /\ \A j \in 1..Len(seen) :
              Reapable(seen[j].names) =>
                  (seen[j].reaped <=>
                      /\ config.MaxAge # 0
                      /\ seen[j].at - StampOf(seen[j].names[1]) > config.MaxAge)
        /\ \A j \in 1..Len(seen) :
              seen[j].reaped =>
                  /\ \E k \in 1..Len(ops) :
                        ops[k] = Op("stop", seen[j].ep, seen[j].id, ops[k].ok)
                  /\ (\E k \in 1..Len(ops) : ops[k] = Op("remove", seen[j].ep, seen[j].id, TRUE))
                        => ~InEngine(seen[j].ep, seen[j].id)
        /\ config.MaxAge = 0 => ops = <<>>

\* max_age 86400: a container of age 86400 was left and one of age 86401 taken.
C9_Witness ==
    /\ CleanUp
    /\ config.MaxAge = DefaultMaxAge
    /\ pc = "exit"
    /\ exitCode = 0
    /\ \E j \in 1..Len(seen) :
          /\ Reapable(seen[j].names)
          /\ seen[j].at - StampOf(seen[j].names[1]) = DefaultMaxAge
          /\ ~seen[j].reaped
          /\ RunningIn(seen[j].ep, seen[j].id)
    /\ \E j \in 1..Len(seen) :
          /\ Reapable(seen[j].names)
          /\ seen[j].at - StampOf(seen[j].names[1]) = DefaultMaxAge + 1
          /\ seen[j].reaped
          /\ ~InEngine(seen[j].ep, seen[j].id)

---------------------------------------------------------------------------
(* Property of the reaper mode, whole program *)

\* C10: on a run with -clean the only operations issued are stop and remove:
\* no container is created or started, none inspected, wait makes no attempt
\* and no ssh is run; the run is in the endpoint loop or has ended, and when
\* no endpoint of the pool could be connected to and listed it ends with
\* status 0 and has issued nothing.
C10_ReaperNeverStartsASession ==
    CleanUp =>
        /\ \A k \in 1..Len(ops) : ops[k].op \in {"stop", "remove"}
        /\ container = NoID
        /\ inspected = "none"
        /\ dials = 0 /\ sleeps = 0
        /\ pc \in {"scan", "reap", "exit"}
        /\ (pc = "exit" /\ \A k \in 1..Len(pool) : ~Listable(k)) =>
              (exitCode = 0 /\ ops = <<>>)
        /\ (pc = "exit" /\ exitCode # 0) => (Len(ops) > 0 /\ ~ops[Len(ops)].ok)

\* A reaper run over two endpoints ended well after taking a container of each.
C10_Witness ==
    /\ CleanUp
    /\ pc = "exit"
    /\ exitCode = 0
    /\ Len(queried) = 2
    /\ \E k \in 1..Len(ops) : ops[k] = Op("remove", pool[1], ops[k].id, TRUE)
    /\ \E k \in 1..Len(ops) : ops[k] = Op("remove", pool[2], ops[k].id, TRUE)
    /\ pool[1] # pool[2]

---------------------------------------------------------------------------
(* Properties of an interactive run as a whole, whole program *)

Succeeded(kind) == \E k \in 1..Len(ops) : ops[k].op = kind /\ ops[k].ok

\* Everything went well: an endpoint was selected, and on it the container
\* was created, started and inspected, wait returned, ssh ended without an
\* error, and the container was stopped and then removed.
FullSuccess ==
    /\ Endpoint # ""
    /\ ops = << Op("create", Endpoint, NewID, TRUE), Op("start", Endpoint, NewID, TRUE),
                Op("ssh", Endpoint, NewID, TRUE), Op("stop", Endpoint, NewID, TRUE),
                Op("remove", Endpoint, NewID, TRUE) >>
    /\ inspected = "bound"
    /\ accepted /\ dials >= 1 /\ dials <= WaitAttempts
    /\ ~InEngine(Endpoint, NewID)

\* C11: an interactive run that has ended has status 0 exactly when
\* everything went well; every other ended interactive run has a status
\* greater than zero.
C11_ExitZeroIsFullSuccess ==
    (~CleanUp /\ pc = "exit") =>
        /\ exitCode = 0 <=> FullSuccess
        /\ exitCode >= 0

C11_Witness ==
    /\ ~CleanUp
    /\ pc = "exit"
    /\ exitCode = 0
    /\ FullSuccess

CountOps(kind) == Cardinality({k \in 1..Len(ops) : ops[k].op = kind})

\* The containers in the engines that this run created.
Live == {<<a, k>> \in Addrs \X (1..(MaxContainers + 2)) :
            k <= Len(engine[a]) /\ engine[a][k].ID = NewID}

\* C12: in an interactive run create is issued at most once and remove at
\* most once; the handle is set exactly when the create succeeded; a remove
\* is issued only for the container of an earlier successful create, not
\* removed before; and the engines hold one container of this run between
\* its successful create and its successful remove, and none otherwise.
C12_OneLiveContainer ==
    ~CleanUp =>
        /\ CountOps("create") <= 1
        /\ CountOps("remove") <= 1
        /\ container \in {NoID, NewID}
        /\ container = NewID <=> Succeeded("create")
        /\ \A k \in 1..Len(ops) :
              ops[k].op = "remove" =>
                  /\ ops[k].id = NewID
                  /\ \E j \in 1..(k - 1) : ops[j] = Op("create", ops[k].ep, NewID, TRUE)
                  /\ \A j \in 1..(k - 1) : ~(ops[j].op = "remove" /\ ops[j].ok)
        /\ Cardinality(Live) =
              (IF Succeeded("create") /\ ~Succeeded("remove") THEN 1 ELSE 0)

\* The run's container was created, held by the engine, and removed again.
C12_Witness ==
    /\ ~CleanUp
    /\ pc = "exit"
    /\ Succeeded("create")
    /\ Succeeded("remove")
    /\ Live = {}
    /\ container = NewID

---------------------------------------------------------------------------
(* Ties in the endpoint selection, selection alone *)

NoneEmpty == \A k \in 1..Len(pool) : Listable(k) => Count(pool[k]) > 0

\* C13: when no listable endpoint of the pool is empty, the endpoint the
\* scan has selected has the least count of the listable endpoints and every
\* listable endpoint before it in the pool has a strictly greater count: of
\* the endpoints sharing the least count the first in pool order is selected.
C13_FirstOfTheLeastLoaded ==
    (Selected /\ Endpoint # "" /\ NoneEmpty) =>
        \E e \in 1..Len(pool) :
            /\ pool[e] = Endpoint
            /\ Listable(e)
            /\ \A k \in 1..Len(pool) : Listable(k) => Count(pool[k]) >= Count(Endpoint)
            /\ \A k \in 1..(e - 1) : Listable(k) => Count(pool[k]) > Count(Endpoint)

\* Counts n > m = m > 0: the second endpoint replaced the first and was not
\* replaced by the third.
C13_Witness ==
    /\ Selected
    /\ Len(pool) = 3
    /\ Listable(1) /\ Listable(2) /\ Listable(3)
    /\ Count(pool[1]) > Count(pool[2])
    /\ Count(pool[2]) = Count(pool[3])
    /\ Count(pool[3]) > 0
    /\ Endpoint = pool[2]

---------------------------------------------------------------------------
(* Termination of the readiness wait and its banner test, wait alone *)

\* wait has been called and has not returned or given up.
InWait == pc \in {"wait", "reading"}

\* C14: wait makes at most 60 connection attempts, and as long as it has
\* neither returned nor ended the process it can go on to its next attempt or
\* to its timeout: no attempt holds it for ever.
C14_WaitAlwaysProceeds ==
    /\ dials <= WaitAttempts
    /\ InWait => ENABLED (WaitAttempt \/ WaitGiveUp)

\* C15: wait has returned (control is at the call of connect) only at an
\* attempt whose own bytes contain "SSH".
C15_BannerOfTheSameAttempt ==
    pc = "connect" => lastDial = "banner"

---------------------------------------------------------------------------
(* Engine errors in an interactive run, whole program *)

EngineOps == {"create", "start", "stop", "remove"}

\* C16: in an interactive run an engine operation that returned an error is
\* the last operation of the run and the only one of its kind, and the
\* process has ended with a non-zero status; after a failed create nothing
\* else was issued, after a failed start nothing was inspected, no
\* connection attempt made and no session started, after a failed stop no
\* remove was issued.
C16_FailFastOnEngineErrors ==
    ~CleanUp =>
        \A k \in 1..Len(ops) :
            (ops[k].op \in EngineOps /\ ~ops[k].ok) =>
                /\ k = Len(ops)
                /\ pc = "exit"
                /\ exitCode > 0
                /\ CountOps(ops[k].op) = 1
                /\ ops[k].op = "create" => Len(ops) = 1
                /\ ops[k].op = "start" =>
                      (inspected = "none" /\ dials = 0 /\ ~Issued("ssh"))
                /\ ops[k].op = "stop" => ~Issued("remove")

\* A failed start ended the run before anything was inspected.
C16_Witness ==
    /\ ~CleanUp
    /\ pc = "exit"
    /\ exitCode = FatalExit
    /\ Len(ops) = 2
    /\ ops[2].op = "start"
    /\ ~ops[2].ok
    /\ inspected = "none"

---------------------------------------------------------------------------
(* Completeness of the reaper, reaper alone *)

\* The reading taken at entry e of seen makes its container due: one name
\* <token>-<ts>, max_age not zero, and reading - ts > max_age.
Due(e) ==
    /\ Reapable(e.names)
    /\ config.MaxAge # 0
    /\ e.at - StampOf(e.names[1]) > config.MaxAge

\* C17: a reaper run that has ended with status 0 made a client for every
\* endpoint of the pool, in order; every container still running on a
\* listable endpoint was examined and was not due at its reading; every
\* container that was due has a successful stop directly followed by a
\* successful remove in the log and is gone from the engine.  In any reaper
\* run a remove directly follows the successful stop of the same container,
\* and a failed stop or remove has ended the run with a non-zero status.
C17_ReaperCompleteness ==
    CleanUp =>
        /\ (pc = "exit" /\ exitCode = 0) =>
              /\ queried = [k \in 1..Len(pool) |-> k]
              /\ \A k \in 1..Len(pool) : \A c \in 1..Len(engine[pool[k]]) :
                    (Listable(k) /\ engine[pool[k]][c].running) =>
                        \E j \in 1..Len(seen) :
                            /\ seen[j].ep = pool[k]
                            /\ seen[j].id = engine[pool[k]][c].ID
                            /\ ~Due(seen[j])
              /\ \A j \in 1..Len(seen) :
                    Due(seen[j]) =>
                        /\ ~InEngine(seen[j].ep, seen[j].id)
                        /\ \E s \in 1..(Len(ops) - 1) :
                              /\ ops[s] = Op("stop", seen[j].ep, seen[j].id, TRUE)
                              /\ ops[s + 1] = Op("remove", seen[j].ep, seen[j].id, TRUE)
        /\ \A k \in 1..Len(ops) :
              ops[k].op = "remove" =>
                  (k > 1 /\ ops[k - 1] = Op("stop", ops[k].ep, ops[k].id, TRUE))
        /\ \A k \in 1..Len(ops) :
              ~ops[k].ok => (k = Len(ops) /\ pc = "exit" /\ exitCode # 0)

\* Both endpoints were visited; a due container was taken on each and a
\* container that was not due is still running on the second.
C17_Witness ==
    /\ CleanUp
    /\ pc = "exit"
    /\ exitCode = 0
    /\ Len(pool) = 2
    /\ queried = <<1, 2>>
    /\ \E j \in 1..Len(seen) :
          seen[j].ep = pool[1] /\ Due(seen[j]) /\ ~InEngine(pool[1], seen[j].id)
    /\ \E j \in 1..Len(seen) :
          seen[j].ep = pool[2] /\ Due(seen[j]) /\ ~InEngine(pool[2], seen[j].id)
    /\ \E j \in 1..Len(seen) :
          seen[j].ep = pool[2] /\ ~Due(seen[j]) /\ RunningIn(pool[2], seen[j].id)

---------------------------------------------------------------------------
(* The names the tool gives (lines 88-91) and what becomes of them.  The run
   is made by any user of up to MaxUserLen characters over a letter and '-'
   (USER may be unset: the empty user), started at either of two seconds,
   against the engine e1, which may hold a container the tool made for the
   same user more than max_age ago.  Another interactive run of the tool, by
   any of the users and started at either second, may create its container
   on e1 while this run goes on. *)

UserChars == {"a", "-"}

Users == SeqsUpTo(UserChars, MaxUserLen)

StartTimes == {Now0 - 1, Now0}

InitNames ==
    /\ CleanUp \in BOOLEAN
    /\ config = [Endpoints |-> <<"e1">>, MaxAge |-> DefaultMaxAge]
    /\ hosts = [a \in Addrs |-> [status |-> "up", host |-> "h1"]]
    /\ target \in {"down", "prompt"}
    /\ \E user \in Users : \E t \in StartTimes : \E old \in BOOLEAN :
       /\ now = t
       /\ stamp = t
       /\ name = StampedName(user, t)
       /\ engine = [a \in Addrs |->
             IF a = "e1" /\ old
             THEN Populate(<< <<StampedName(user, t - DefaultMaxAge - 1)>> >>)
             ELSE <<>>]
    /\ pc = "scan"
    /\ idx = 1
    /\ Endpoint = ""
    /\ Smallest = SmallestInit
    /\ containers = <<>>
    /\ cidx = 0
    /\ container = NoID
    /\ port = 0
    /\ i = 0
    /\ buf = [k \in 1..BufLen |-> "0"]
    /\ exitCode = -1
    /\ ops = <<>>
    /\ queried = <<>>
    /\ seen = <<>>
    /\ dials = 0
    /\ sleeps = 0
    /\ lastDial = "none"
    /\ accepted = FALSE
    /\ inspected = "none"

\* Lines 88-91 and 170-172 of another run of the tool: it names its container
\* from its own user and start second and creates it on e1, which the engine
\* accepts when it holds no container of that name.
OtherRunCreates ==
    /\ exitCode = -1
    /\ ~InEngine("e1", OtherID)
    /\ \E user \in Users : \E t \in StartTimes :
       /\ ~NameTaken("e1", StampedName(user, t))
       /\ engine' = [engine EXCEPT !["e1"] =
             Append(@, [ID |-> OtherID, Names |-> <<StampedName(user, t)>>, running |-> TRUE])]
    /\ UNCHANGED <<CleanUp, config, hosts, target, now, stamp, name, pc, idx, Endpoint,
                   Smallest, containers, cidx, container, port, i, buf, exitCode, ops,
                   queried, seen, dials, sleeps, lastDial, accepted, inspected>>

NextNames ==
    \/ ScanEndpoint
    \/ ReapContainer
    \/ AfterLoop
    \/ CreateContainer
    \/ StartContainer
    \/ InspectContainer
    \/ WaitAttempt
    \/ WaitGiveUp
    \/ Connect
    \/ StopContainer
    \/ RemoveContainer
    \/ OtherRunCreates

SpecNames == InitNames /\ [][NextNames]_vars

---------------------------------------------------------------------------
(* Properties of the names *)

\* The seconds at which the containers of this model were created.
CreationTimes == StartTimes \cup {t - DefaultMaxAge - 1 : t \in StartTimes}

\* names is what the tool gives a container it creates at second t.
MadeByTool(names, t) == \E user \in Users : names = <<StampedName(user, t)>>

\* C18: the container an interactive run has created carries a name from
\* which the reaper reads the second the run started at; and a container the
\* tool created at second t that the reaper examined at a reading more than
\* max_age after t was taken by it.
C18_NameRoundTrip ==
    /\ \A a \in Addrs : \A k \in 1..Len(engine[a]) :
          engine[a][k].ID = NewID =>
              (ParsedName(engine[a][k]).ok /\ ParsedName(engine[a][k]).val = stamp)
    /\ \A j \in 1..Len(seen) : \A t \in CreationTimes :
          (MadeByTool(seen[j].names, t) /\ config.MaxAge # 0 /\ seen[j].at - t > config.MaxAge)
              => seen[j].reaped

\* C19: the container another run of the tool created on the endpoint does
\* not carry the name of this run, and the create of this run has not failed
\* while that container held its name.
C19_NamesDifferAcrossRuns ==
    \A k \in 1..Len(engine["e1"]) :
        engine["e1"][k].ID = OtherID =>
            /\ engine["e1"][k].Names # <<name>>
            /\ \A o \in 1..Len(ops) :
                  ~(ops[o] = Op("create", "e1", NewID, FALSE) /\ NameTaken("e1", name))

---------------------------------------------------------------------------
(* The container of a run that ended by log.Fatal, whole program *)

LastOp == ops[Len(ops)]

\* The three fatal ends after a successful create that the program makes
\* itself: the start failed (line 179), wait timed out (line 81), the ssh
\* client failed (line 65).
StartFailed == LastOp = Op("start", Endpoint, NewID, FALSE)

TimedOut == inspected = "bound" /\ LastOp.op = "start" /\ LastOp.ok /\ dials = WaitAttempts

SessionFailed == LastOp = Op("ssh", Endpoint, NewID, FALSE)

\* C20: when an interactive run whose create succeeded has ended by a failed
\* start, by the timeout of wait or by a failed session, the container it
\* created is no longer in the engine.
C20_NoOrphanOnFatalExit ==
    (/\ ~CleanUp
     /\ pc = "exit"
     /\ exitCode = FatalExit
     /\ Succeeded("create")
     /\ (StartFailed \/ TimedOut \/ SessionFailed))
        => ~InEngine(Endpoint, NewID)

====
